---- MODULE Spec2Model ----
(***************************************************************************)
(* Routing decision engine of the orchestrator service:                    *)
(*   model_registry.py      ModelRegistry        (the Directory)           *)
(*   routing_policies.py    RoutingPolicyManager (the Policy Store,        *)
(*                                                budget_tracker ledger)   *)
(*   intelligent_router.py  IntelligentRouter    (the Router)              *)
(*   azure_openai_client.py AzureOpenAIClient    (the Invocation Client)   *)
(*                                                                         *)
(* Money is kept in whole currency units, cost_threshold in percent, and   *)
(* confidence_score in tenths, so that all arithmetic is on integers.      *)
(***************************************************************************)
EXTENDS Integers, FiniteSets, Sequences, TLC

VARIABLES
    models,          \* ModelRegistry.models: deployment name -> ModelInfo
    policies,        \* RoutingPolicyManager.policies: <<tenant, feature>> -> RoutingPolicy
    budget_tracker,  \* RoutingPolicyManager.budget_tracker: tenant -> id of its month dict
    heap,            \* the month dicts: id -> (month -> amount)
    current_month,   \* datetime.now().strftime("%Y-%m"), as a month number
    usage_tracker,   \* IntelligentRouter.usage_tracker: tenant -> model -> total_requests
    request,         \* the RoutingRequest of the route_request call in progress
    response,        \* the RoutingResponse it returned
    raised,          \* whether the last record_usage_cost call raised an exception
    pc,              \* per client thread: position inside chat_completion
    local,           \* per client thread: its local variables
    hist             \* history: what the client threads have done so far

vars == <<models, policies, budget_tracker, heap, current_month, usage_tracker,
          request, response, raised, pc, local, hist>>

-----------------------------------------------------------------------------
(* Bounds of the model *)

\* largest current-month spend the sequential callers drive a ledger entry to
MaxSpend == 2
\* largest debt the sequential callers drive a ledger entry to
MaxDebt == 1
\* number of route_request calls the analytics counters are followed for
MaxRouted == 1
\* number of chat_completion calls the client threads make in all
MaxCalls == 3
\* number of concurrently running client threads
NumThreads == 2
\* last calendar month the clock is followed to
MaxMonth == 2

-----------------------------------------------------------------------------
(* Python values *)

None == "None"

\* Optional[int] / Optional[float]
NilInt == [some |-> FALSE, val |-> 0]
SomeInt(v) == [some |-> TRUE, val |-> v]
\* Optional[bool]
NilBool == [some |-> FALSE, val |-> FALSE]
SomeBool(b) == [some |-> TRUE, val |-> b]

\* truth value of an Optional number: None and 0 are both falsy
TruthyInt(o) == o.some /\ o.val # 0
\* truth value of an Optional[str]: None and "" are both falsy
TruthyStr(s) == s # None /\ s # ""

-----------------------------------------------------------------------------
(* Configuration sources *)

Tenants == {"acme"}
Features == {"qa", "summarize"}
Capabilities == {"chat", "vision", "tools"}
HealthStatuses == {"healthy", "degraded", "unhealthy"}

\* the endpoint the deployments of the catalog are served from
Endpoint == "https://aoai"

ModelInfo(caps, lat, ctx, cin, cout) ==
    [endpoint |-> Endpoint,
     capabilities |-> caps, latency |-> lat, context_length |-> ctx,
     health_status |-> "healthy", cost_input |-> cin, cost_output |-> cout,
     error_count |-> 0, total_requests |-> 0, total_tokens |-> 0]

\* the deployment catalog of model_registry.json
RegistryConfig ==
    ( "gpt-4o"       :> ModelInfo({"chat", "vision", "tools"}, "medium", 4, 3, 2) ) @@
    ( "gpt-4o-mini"  :> ModelInfo({"chat"}, "low", 3, 2, 1) ) @@
    ( "gpt-35-turbo" :> ModelInfo({"chat"}, "very_low", 2, 1, 1) )

\* a deployment name that no catalog holds
Dangling == "claude-x"

\* the deployment names policies and callers use
DeploymentNames == DOMAIN RegistryConfig \cup {Dangling}

RoutingPolicy(p, f, bf, budget, thr, auto, qp) ==
    [primary |-> p, fallback |-> f, budget_fallback |-> bf,
     monthly_budget |-> budget, cost_threshold |-> thr,
     automatic_downshift |-> auto, quality_priority |-> qp]

\* two routing_policies sections a reload can switch between:
\*   A  qa has a tenant policy and a default one, summarize has neither;
\*   B  qa has a tenant policy only, summarize has a default policy only.
PolicyConfigA ==
    ( <<"acme", "qa">> :>
        RoutingPolicy("gpt-4o", "gpt-4o-mini", "gpt-35-turbo", 4, 50, TRUE, TRUE) ) @@
    ( <<"default", "qa">> :>
        RoutingPolicy("gpt-35-turbo", None, None, 2, 50, TRUE, FALSE) )

PolicyConfigB ==
    ( <<"acme", "qa">> :>
        RoutingPolicy(Dangling, "gpt-4o", "gpt-4o", 4, 50, FALSE, FALSE) ) @@
    ( <<"default", "summarize">> :>
        RoutingPolicy("gpt-4o-mini", None, Dangling, 2, 50, TRUE, FALSE) )

PolicyConfigs == {PolicyConfigA, PolicyConfigB}

-----------------------------------------------------------------------------
(* ModelRegistry *)

\* models.get(deployment_name) is None
NoModel(deployment_name) == deployment_name \notin DOMAIN models

get_model(deployment_name) == models[deployment_name]

get_model_cost_estimate(deployment_name, input_tokens, output_tokens) ==
    IF NoModel(deployment_name) THEN 0
    ELSE input_tokens * get_model(deployment_name).cost_input
         + output_tokens * get_model(deployment_name).cost_output

-----------------------------------------------------------------------------
(* RoutingPolicyManager: policies and ledger reads *)

NoPolicy == [primary |-> None]

get_policy(tenant_id, feature) ==
    IF <<tenant_id, feature>> \in DOMAIN policies
    THEN policies[<<tenant_id, feature>>] ELSE NoPolicy

get_default_policy(feature) == get_policy("default", feature)

\* current_budget adding up the entries of every month of the tenant
current_budget_total(tenant_id) ==
    IF tenant_id \in DOMAIN budget_tracker
    THEN LET d == heap[budget_tracker[tenant_id]]
             Sum[S \in SUBSET DOMAIN d] ==
                 IF S = {} THEN 0
                 ELSE LET m == CHOOSE x \in S : TRUE IN d[m] + Sum[S \ {m}]
         IN Sum[DOMAIN d]
    ELSE 0

\* budget_tracker.get(tenant_id, {}).get(current_month, 0.0)
current_budget(tenant_id) ==
    IF tenant_id \in DOMAIN budget_tracker
    THEN LET d == heap[budget_tracker[tenant_id]]
         IN IF current_month \in DOMAIN d THEN d[current_month] ELSE 0
    ELSE 0

\* RoutingPolicyManager.get_budget_status; utilization_percentage is the
\* quotient num / den
get_budget_status(tenant_id) ==
    LET tenant_policies == {k \in DOMAIN policies : k[1] = tenant_id}
        Sum[S \in SUBSET tenant_policies] ==
            IF S = {} THEN 0
            ELSE LET k == CHOOSE x \in S : TRUE
                 IN policies[k].monthly_budget + Sum[S \ {k}]
        total_monthly_budget == Sum[tenant_policies]
    IN [tenant_id |-> tenant_id,
        current_month |-> current_month,
        current_spend |-> current_budget(tenant_id),
        total_monthly_budget |-> total_monthly_budget,
        remaining_budget |-> total_monthly_budget - current_budget(tenant_id),
        utilization_percentage |->
            IF total_monthly_budget > 0
            THEN [num |-> current_budget(tenant_id) * 100, den |-> total_monthly_budget]
            ELSE [num |-> 0, den |-> 1]]

-----------------------------------------------------------------------------
(* IntelligentRouter *)

RoutingRequest(t, f, caps, qp, bo, lat, ctx, uo) ==
    [tenant_id |-> t, feature |-> f, required_capabilities |-> caps,
     quality_priority |-> qp, budget_override |-> bo, latency_requirement |-> lat,
     context_length_estimate |-> ctx, user_override |-> uo]

RoutingResponse(m, reason, fb, impact, lat, conf) ==
    [selected_model |-> m, routing_reason |-> reason, fallback_used |-> fb,
     budget_impact |-> impact, estimated_latency |-> lat, confidence_score |-> conf]

\* the strings route_request puts in routing_reason
ReasonOverride == "User override"
ReasonNoPolicy == "No routing policy found"
ReasonNoModel == "No suitable model available"
ReasonBudget == "Budget constraint - using cost-optimized model"
ReasonFallback == "Primary model unavailable - using fallback"
ReasonPrimary == "Primary model selected"

_validate_model_capabilities(deployment_name, required_capabilities) ==
    IF required_capabilities = {} THEN TRUE
    ELSE IF NoModel(deployment_name) THEN FALSE
    ELSE IF get_model(deployment_name).health_status # "healthy" THEN FALSE
    ELSE \A cap \in required_capabilities : cap \in get_model(deployment_name).capabilities

\* latency_hierarchy.get(latency, 3)
latency_hierarchy(latency) ==
    CASE latency = "very_low" -> 0
      [] latency = "low" -> 1
      [] latency = "medium" -> 2
      [] OTHER -> 3

\* _meets_latency_requirement asking for a strictly faster class
_meets_latency_requirement_strict(model_latency, required_latency) ==
    latency_hierarchy(model_latency) < latency_hierarchy(required_latency)

_meets_latency_requirement(model_latency, required_latency) ==
    latency_hierarchy(model_latency) <= latency_hierarchy(required_latency)

_check_performance_requirements(deployment_name, req) ==
    IF NoModel(deployment_name) THEN FALSE
    ELSE IF TruthyStr(req.latency_requirement)
            /\ ~_meets_latency_requirement(get_model(deployment_name).latency,
                                           req.latency_requirement)
         THEN FALSE
    ELSE IF TruthyInt(req.context_length_estimate)
            /\ req.context_length_estimate.val > get_model(deployment_name).context_length
         THEN FALSE
    ELSE TRUE

\* budget_override or policy.budget_constraints.monthly_budget
budget_limit(policy, budget_override) ==
    IF TruthyInt(budget_override) THEN budget_override.val ELSE policy.monthly_budget

\* current_budget < budget_limit * cost_threshold, cost_threshold in percent
_check_budget_constraints(tenant_id, policy, budget_override) ==
    IF ~policy.automatic_downshift THEN TRUE
    ELSE current_budget(tenant_id) * 100
            < budget_limit(policy, budget_override) * policy.cost_threshold

_validate_user_override(deployment_name, required_capabilities) ==
    _validate_model_capabilities(deployment_name, required_capabilities)

_select_quality_priority_model(req, policy) ==
    IF _validate_model_capabilities(policy.primary, req.required_capabilities)
       /\ _check_performance_requirements(policy.primary, req)
    THEN policy.primary
    ELSE IF TruthyStr(policy.fallback)
            /\ _validate_model_capabilities(policy.fallback, req.required_capabilities)
            /\ _check_performance_requirements(policy.fallback, req)
    THEN policy.fallback
    ELSE IF TruthyStr(policy.budget_fallback)
            /\ _validate_model_capabilities(policy.budget_fallback, req.required_capabilities)
    THEN policy.budget_fallback
    ELSE None

_select_cost_optimized_model(req, policy) ==
    IF TruthyStr(policy.fallback)
       /\ _validate_model_capabilities(policy.fallback, req.required_capabilities)
       /\ _check_performance_requirements(policy.fallback, req)
    THEN policy.fallback
    ELSE IF _validate_model_capabilities(policy.primary, req.required_capabilities)
            /\ _check_performance_requirements(policy.primary, req)
    THEN policy.primary
    ELSE IF TruthyStr(policy.budget_fallback)
            /\ _validate_model_capabilities(policy.budget_fallback, req.required_capabilities)
    THEN policy.budget_fallback
    ELSE None

\* quality_priority of the request, else of the policy
effective_quality_priority(req, policy) ==
    IF req.quality_priority.some THEN req.quality_priority.val ELSE policy.quality_priority

_select_optimal_model(req, policy) ==
    IF ~_check_budget_constraints(req.tenant_id, policy, req.budget_override)
       /\ TruthyStr(policy.budget_fallback)
       /\ _validate_model_capabilities(policy.budget_fallback, req.required_capabilities)
    THEN policy.budget_fallback
    ELSE IF effective_quality_priority(req, policy)
    THEN _select_quality_priority_model(req, policy)
    ELSE _select_cost_optimized_model(req, policy)

\* RoutingPolicyManager.select_model, the selection entry point of the policy
\* store; its _validate_model_capabilities and _check_budget_constraints are
\* the router's, line for line
select_model(tenant_id, feature, required_capabilities, quality_priority, budget_override) ==
    LET policy == IF get_policy(tenant_id, feature) # NoPolicy
                  THEN get_policy(tenant_id, feature) ELSE get_default_policy(feature)
    IN IF policy = NoPolicy THEN None
       ELSE IF ~_check_budget_constraints(tenant_id, policy, budget_override)
               /\ TruthyStr(policy.budget_fallback)
               /\ _validate_model_capabilities(policy.budget_fallback, required_capabilities)
       THEN policy.budget_fallback
       ELSE IF (IF quality_priority.some THEN quality_priority.val
                ELSE policy.quality_priority)
       THEN IF _validate_model_capabilities(policy.primary, required_capabilities)
            THEN policy.primary
            ELSE IF TruthyStr(policy.fallback)
                    /\ _validate_model_capabilities(policy.fallback, required_capabilities)
            THEN policy.fallback
            ELSE None
       ELSE IF TruthyStr(policy.fallback)
               /\ _validate_model_capabilities(policy.fallback, required_capabilities)
            THEN policy.fallback
            ELSE IF _validate_model_capabilities(policy.primary, required_capabilities)
            THEN policy.primary
            ELSE None

\* context_length_estimate or 1000, and the assumed output length
DefaultInputTokens == 1000
DefaultOutputTokens == 500

_estimate_request_cost(deployment_name, req) ==
    get_model_cost_estimate(deployment_name,
        IF TruthyInt(req.context_length_estimate)
        THEN req.context_length_estimate.val ELSE DefaultInputTokens,
        DefaultOutputTokens)

latency_of(deployment_name) ==
    IF NoModel(deployment_name) THEN "unknown" ELSE get_model(deployment_name).latency

_create_override_response(deployment_name, req) ==
    RoutingResponse(deployment_name, ReasonOverride, FALSE,
                    _estimate_request_cost(deployment_name, req),
                    latency_of(deployment_name), 10)

\* _create_routing_response giving every policy decision the confidence of a
\* primary selection
_create_routing_response_flat(req, selected_model, policy) ==
    LET fallback_used == selected_model # policy.primary
        routing_reason ==
            IF fallback_used
            THEN IF selected_model = policy.budget_fallback
                 THEN ReasonBudget ELSE ReasonFallback
            ELSE ReasonPrimary
    IN RoutingResponse(selected_model, routing_reason, fallback_used,
                       _estimate_request_cost(selected_model, req),
                       latency_of(selected_model), 9)

_create_routing_response(req, selected_model, policy) ==
    LET fallback_used == selected_model # policy.primary
        routing_reason ==
            IF fallback_used
            THEN IF selected_model = policy.budget_fallback
                 THEN ReasonBudget ELSE ReasonFallback
            ELSE ReasonPrimary
    IN RoutingResponse(selected_model, routing_reason, fallback_used,
                       _estimate_request_cost(selected_model, req),
                       latency_of(selected_model),
                       IF fallback_used THEN 7 ELSE 9)

_create_error_response(error_message) ==
    RoutingResponse("", error_message, FALSE, 0, "unknown", 0)

\* the policy route_request resolves: the tenant's, else the default one
resolve_policy(req) ==
    IF get_policy(req.tenant_id, req.feature) # NoPolicy
    THEN get_policy(req.tenant_id, req.feature)
    ELSE get_default_policy(req.feature)

\* route_request resolving the policy before it looks at the override
route_request_policy_first(req) ==
    LET policy == resolve_policy(req)
    IN IF policy = NoPolicy
       THEN _create_error_response(ReasonNoPolicy)
       ELSE IF TruthyStr(req.user_override)
               /\ _validate_user_override(req.user_override, req.required_capabilities)
       THEN _create_override_response(req.user_override, req)
       ELSE LET selected_model == _select_optimal_model(req, policy)
            IN IF ~TruthyStr(selected_model)
               THEN _create_error_response(ReasonNoModel)
               ELSE _create_routing_response(req, selected_model, policy)

route_request(req) ==
    IF TruthyStr(req.user_override)
       /\ _validate_user_override(req.user_override, req.required_capabilities)
    THEN _create_override_response(req.user_override, req)
    ELSE LET policy == resolve_policy(req)
         IN IF policy = NoPolicy
            THEN _create_error_response(ReasonNoPolicy)
            ELSE LET selected_model == _select_optimal_model(req, policy)
                 IN IF ~TruthyStr(selected_model)
                    THEN _create_error_response(ReasonNoModel)
                    ELSE _create_routing_response(req, selected_model, policy)

\* usage_tracker[tenant_id][deployment_name]["total_requests"], 0 when absent
total_requests(tracker, tenant_id, deployment_name) ==
    IF tenant_id \in DOMAIN tracker /\ deployment_name \in DOMAIN tracker[tenant_id]
    THEN tracker[tenant_id][deployment_name] ELSE 0

\* the time last_used is set to is not followed
_update_usage_tracking(tracker, tenant_id, deployment_name) ==
    LET t0 == IF tenant_id \in DOMAIN tracker THEN tracker[tenant_id] ELSE <<>>
        n == total_requests(tracker, tenant_id, deployment_name)
    IN (tenant_id :> ((deployment_name :> n + 1) @@ t0)) @@ tracker

\* tracker_after counting every call, whatever its outcome
tracker_after_always(req) ==
    _update_usage_tracking(usage_tracker, req.tenant_id, route_request(req).selected_model)

\* the usage_tracker after route_request(req): only a decision taken from a
\* policy is counted
tracker_after(req) ==
    IF route_request(req).routing_reason \in {ReasonOverride, ReasonNoPolicy, ReasonNoModel}
    THEN usage_tracker
    ELSE _update_usage_tracking(usage_tracker, req.tenant_id,
                                route_request(req).selected_model)

-----------------------------------------------------------------------------
(* Inputs *)

Threads == 1..NumThreads

CapabilitySets == {{}, {"chat"}, {"vision"}}
BudgetOverrides == {NilInt, SomeInt(0), SomeInt(8)}
QualityPriorities == {NilBool, SomeBool(TRUE), SomeBool(FALSE)}
LatencyRequirements == {None, "low"}
ContextEstimates == {NilInt, SomeInt(0), SomeInt(3)}
UserOverrides == {None, "gpt-35-turbo", Dangling}

Requests ==
    { RoutingRequest(t, f, caps, qp, bo, lat, ctx, uo) :
        t \in Tenants, f \in Features, caps \in CapabilitySets,
        qp \in QualityPriorities, bo \in BudgetOverrides,
        lat \in LatencyRequirements, ctx \in ContextEstimates, uo \in UserOverrides }

\* amounts handed to record_usage_cost
Amounts == {-1, 1, 2}

-----------------------------------------------------------------------------
(* State machine: the stores and the router, called one call at a time *)

\* no route_request call is in progress
NoRequest == [tenant_id |-> None]
NoResponse == [selected_model |-> None]

Idle == request = NoRequest

\* number of decisions the analytics counters hold
Routed ==
    LET Sum[S \in SUBSET (Tenants \X DeploymentNames)] ==
            IF S = {} THEN 0
            ELSE LET x == CHOOSE y \in S : TRUE
                 IN total_requests(usage_tracker, x[1], x[2]) + Sum[S \ {x}]
    IN Sum[Tenants \X DeploymentNames]

\* calls made, spend recorded by calls that passed the budget gate, spend
\* recorded in all, deployments a failed backend call was reported for
NoHistory == [calls |-> 0, passed |-> 0, recorded |-> 0, failed |-> {}]

Init ==
    /\ models = RegistryConfig
    /\ policies = PolicyConfigA
    /\ budget_tracker = <<>>
    /\ heap = <<>>
    /\ current_month = 1
    /\ usage_tracker = <<>>
    /\ request = NoRequest
    /\ response = NoResponse
    /\ raised = FALSE
    /\ pc = [t \in Threads |-> "idle"]
    /\ local = [t \in Threads |-> <<>>]
    /\ hist = NoHistory

\* IntelligentRouter.route_request
Route(req) ==
    /\ Idle
    /\ Routed < MaxRouted
    /\ request' = req
    /\ response' = route_request(req)
    /\ usage_tracker' = tracker_after(req)
    /\ UNCHANGED <<models, policies, budget_tracker, heap, current_month, raised,
                   pc, local, hist>>

\* the caller takes the decision; the router is free for the next call
Return ==
    /\ ~Idle
    /\ request' = NoRequest
    /\ response' = NoResponse
    /\ UNCHANGED <<models, policies, budget_tracker, heap, current_month, usage_tracker,
                   raised, pc, local, hist>>

\* ModelRegistry.update_model_health
update_model_health(deployment_name, health_status, error_count) ==
    /\ models' = IF deployment_name \in DOMAIN models
                 THEN [models EXCEPT ![deployment_name].health_status = health_status,
                                     ![deployment_name].error_count = error_count]
                 ELSE models
    /\ UNCHANGED <<policies, budget_tracker, heap, current_month, usage_tracker,
                   request, response, raised, pc, local, hist>>

\* the month dict created for a tenant by creator (0: a sequential caller)
DictId(tenant_id, creator) == <<tenant_id, creator>>

\* RoutingPolicyManager.record_usage_cost, run without interruption
record_usage_cost(tenant_id, amount) ==
    /\ LET id == IF tenant_id \in DOMAIN budget_tracker
                 THEN budget_tracker[tenant_id] ELSE DictId(tenant_id, 0)
           d0 == IF tenant_id \in DOMAIN budget_tracker THEN heap[id] ELSE <<>>
           d1 == IF current_month \in DOMAIN d0 THEN d0 ELSE (current_month :> 0) @@ d0
           d2 == [d1 EXCEPT ![current_month] = @ + amount]
       IN /\ budget_tracker' = (tenant_id :> id) @@ budget_tracker
          /\ heap' = (id :> d2) @@ heap
    /\ raised' = FALSE
    /\ UNCHANGED <<models, policies, current_month, usage_tracker, request, response,
                   pc, local, hist>>

\* RoutingPolicyManager.load_policies / refresh_policies
load_policies(config) ==
    /\ policies' = config
    /\ UNCHANGED <<models, budget_tracker, heap, current_month, usage_tracker,
                   request, response, raised, pc, local, hist>>

\* the ledger entries the sequential callers are followed through
InSpendRange(v) == 0 - MaxDebt <= v /\ v <= MaxSpend

Next ==
    \/ Idle /\ \E req \in Requests : Route(req)
    \/ Return
    \/ Idle /\ \E n \in DeploymentNames, h \in HealthStatuses :
          update_model_health(n, h, IF h = "unhealthy" THEN 1 ELSE 0)
    \/ Idle /\ \E t \in Tenants, a \in Amounts :
          InSpendRange(current_budget(t) + a) /\ record_usage_cost(t, a)
    \/ Idle /\ \E c \in PolicyConfigs : load_policies(c)

Spec == Init /\ [][Next]_vars

-----------------------------------------------------------------------------
(* State machine: the same callers, with the calendar moving on. Every read  *)
(* of datetime.now().strftime("%Y-%m") gives current_month.                  *)

Months == 1..MaxMonth

\* the calendar month ends
NextMonth ==
    /\ current_month < MaxMonth
    /\ current_month' = current_month + 1
    /\ UNCHANGED <<models, policies, budget_tracker, heap, usage_tracker,
                   request, response, raised, pc, local, hist>>

\* the requests that leave the selection to the policy and the budget gate
CalendarRequests ==
    { req \in Requests : /\ req.user_override = None
                         /\ req.latency_requirement = None
                         /\ req.context_length_estimate = NilInt }

\* the deployments stay as loaded: no caller reports health
NextCalendar ==
    \/ Idle /\ \E req \in CalendarRequests : Route(req)
    \/ Return
    \/ Idle /\ \E t \in Tenants, a \in Amounts :
          InSpendRange(current_budget(t) + a) /\ record_usage_cost(t, a)
    \/ Idle /\ \E c \in PolicyConfigs : load_policies(c)
    \/ Idle /\ NextMonth

SpecCalendar == Init /\ [][NextCalendar]_vars

-----------------------------------------------------------------------------
(* State machine: client threads running AzureOpenAIClient.chat_completion   *)
(* concurrently. No lock guards the stores, so a thread can be preempted     *)
(* between any two statements of record_usage_cost, and between the load and *)
(* the store of its += .                                                     *)

\* the tenant and feature the client threads call chat_completion for
ClientTenant == "acme"
ClientFeature == "qa"

\* the RoutingRequest chat_completion builds: required_capabilities = ["chat"],
\* the context estimate of a one-word message (1 word + 10 overhead is scaled to 1)
ClientRequest ==
    RoutingRequest(ClientTenant, ClientFeature, {"chat"}, NilBool, NilInt, None,
                   SomeInt(1), None)

\* response.usage of a successful backend call
TokenUsages == {[prompt_tokens |-> 1, completion_tokens |-> 0],
                [prompt_tokens |-> 1, completion_tokens |-> 1]}

_calculate_chat_cost(model_name, usage) ==
    IF NoModel(model_name) THEN 0
    ELSE usage.prompt_tokens * get_model(model_name).cost_input
         + usage.completion_tokens * get_model(model_name).cost_output

\* ModelRegistry.record_usage(deployment_name, request_count, token_count)
record_usage(ms, deployment_name, request_count, token_count) ==
    IF deployment_name \in DOMAIN ms
    THEN [ms EXCEPT ![deployment_name].total_requests = @ + request_count,
                    ![deployment_name].total_tokens = @ + token_count]
    ELSE ms

\* the models after update_model_health(deployment_name, "unhealthy", error_count=1)
mark_unhealthy(ms, deployment_name) ==
    IF deployment_name \in DOMAIN ms
    THEN [ms EXCEPT ![deployment_name].health_status = "unhealthy",
                    ![deployment_name].error_count = 1]
    ELSE ms

\* the month dicts still referenced, by budget_tracker or by a thread inside +=
Collect(bt, h, loc) ==
    LET live == {bt[t] : t \in DOMAIN bt}
                \cup {loc[t].d : t \in {u \in Threads : "d" \in DOMAIN loc[u]}}
    IN [id \in DOMAIN h \cap live |-> h[id]]

InitConc ==
    /\ Init

\* chat_completion up to the routing decision (lines 182-203)
Call(t) ==
    /\ pc[t] \in {"idle", "done", "raised"}
    /\ hist.calls < MaxCalls
    /\ hist' = [hist EXCEPT !.calls = @ + 1]
    /\ LET r == route_request(ClientRequest)
           policy == resolve_policy(ClientRequest)
       IN /\ usage_tracker' = tracker_after(ClientRequest)
          /\ local' = [local EXCEPT ![t] =
                [selected |-> r.selected_model,
                 passed |-> policy # NoPolicy
                            /\ _check_budget_constraints(ClientTenant, policy,
                                                         ClientRequest.budget_override)]]
          /\ pc' = [pc EXCEPT ![t] = IF r.selected_model = "" THEN "raised" ELSE "execute"]
    /\ UNCHANGED <<models, policies, budget_tracker, heap, current_month, request,
                   response, raised>>

\* the backend call succeeds; cost is computed and record_usage is called
\* (lines 207-214, 355)
BackendOk(t, usage) ==
    /\ pc[t] = "execute"
    /\ local[t].selected \in DOMAIN RegistryConfig
    /\ local' = [local EXCEPT ![t] =
            [selected |-> local[t].selected, passed |-> local[t].passed,
             cost |-> _calculate_chat_cost(local[t].selected, usage)]]
    /\ models' = record_usage(models, local[t].selected, 1, 0)
    /\ pc' = [pc EXCEPT ![t] = "rec_tenant"]
    /\ UNCHANGED <<policies, budget_tracker, heap, current_month, usage_tracker,
                   request, response, raised, hist>>

\* the except branch of chat_completion (lines 225-230)
Except(t) ==
    /\ models' = mark_unhealthy(models, local[t].selected)
    /\ pc' = [pc EXCEPT ![t] = "raised"]
    /\ local' = [local EXCEPT ![t] =
            [selected |-> local[t].selected, passed |-> local[t].passed]]

\* the backend call fails, or no client exists for the selected name
BackendFail(t) ==
    /\ pc[t] = "execute"
    /\ Except(t)
    /\ heap' = heap
    /\ hist' = [hist EXCEPT !.failed = @ \cup {local[t].selected}]
    /\ UNCHANGED <<policies, budget_tracker, current_month, usage_tracker,
                   request, response, raised>>

\* record_usage_cost: current_month = datetime.now()...;
\* if tenant_id not in self.budget_tracker (lines 203-205)
RecTenant(t) ==
    /\ pc[t] = "rec_tenant"
    /\ local' = [local EXCEPT ![t] =
            [selected |-> local[t].selected, passed |-> local[t].passed,
             cost |-> local[t].cost, month |-> current_month]]
    /\ pc' = [pc EXCEPT ![t] = IF ClientTenant \in DOMAIN budget_tracker
                               THEN "rec_month" ELSE "rec_new"]
    /\ UNCHANGED <<models, policies, budget_tracker, heap, current_month, usage_tracker,
                   request, response, raised, hist>>

\* self.budget_tracker[tenant_id] = {} (line 206)
RecNew(t) ==
    /\ pc[t] = "rec_new"
    /\ budget_tracker' = (ClientTenant :> DictId(ClientTenant, t)) @@ budget_tracker
    /\ heap' = Collect(budget_tracker',
                       (DictId(ClientTenant, t) :> <<>>) @@ heap, local)
    /\ pc' = [pc EXCEPT ![t] = "rec_month"]
    /\ UNCHANGED <<models, policies, current_month, usage_tracker, request, response,
                   raised, local, hist>>

\* if current_month not in self.budget_tracker[tenant_id] (line 208)
RecMonth(t) ==
    /\ pc[t] = "rec_month"
    /\ pc' = [pc EXCEPT ![t] =
            IF local[t].month \in DOMAIN heap[budget_tracker[ClientTenant]]
            THEN "rec_load" ELSE "rec_zero"]
    /\ UNCHANGED <<models, policies, budget_tracker, heap, current_month, usage_tracker,
                   request, response, raised, local, hist>>

\* self.budget_tracker[tenant_id][current_month] = 0.0 (line 209)
RecZero(t) ==
    /\ pc[t] = "rec_zero"
    /\ heap' = [heap EXCEPT ![budget_tracker[ClientTenant]] =
                    [m \in DOMAIN @ \cup {local[t].month} |->
                        IF m = local[t].month THEN 0 ELSE @[m]]]
    /\ pc' = [pc EXCEPT ![t] = "rec_load"]
    /\ UNCHANGED <<models, policies, budget_tracker, current_month, usage_tracker,
                   request, response, raised, local, hist>>

\* the load of self.budget_tracker[tenant_id][current_month] += amount (line 211);
\* a dict that lost the month to another thread's line 206 raises KeyError,
\* which chat_completion's except branch catches
RecLoad(t) ==
    /\ pc[t] = "rec_load"
    /\ LET id == budget_tracker[ClientTenant]
       IN IF local[t].month \in DOMAIN heap[id]
          THEN /\ local' = [local EXCEPT ![t] =
                      [selected |-> local[t].selected, passed |-> local[t].passed,
                       cost |-> local[t].cost, month |-> local[t].month,
                       d |-> id, v |-> heap[id][local[t].month]]]
               /\ pc' = [pc EXCEPT ![t] = "rec_store"]
               /\ UNCHANGED <<models, heap>>
          ELSE /\ Except(t)
               /\ heap' = heap
    /\ UNCHANGED <<policies, budget_tracker, current_month, usage_tracker,
                   request, response, raised, hist>>

\* the store of the += (line 211), into the dict the load took; the call and
\* chat_completion then return
RecStore(t) ==
    /\ pc[t] = "rec_store"
    /\ local' = [local EXCEPT ![t] =
            [selected |-> local[t].selected, passed |-> local[t].passed,
             cost |-> local[t].cost]]
    /\ heap' = Collect(budget_tracker,
                       [heap EXCEPT ![local[t].d] =
                            [@ EXCEPT ![local[t].month] = local[t].v + local[t].cost]],
                       local')
    /\ hist' = [hist EXCEPT
                    !.passed = @ + (IF local[t].passed THEN local[t].cost ELSE 0),
                    !.recorded = @ + local[t].cost]
    /\ pc' = [pc EXCEPT ![t] = "done"]
    /\ UNCHANGED <<models, policies, budget_tracker, current_month, usage_tracker,
                   request, response, raised>>

\* the requests other callers of the shared router route while the client
\* threads run
ProbeRequests ==
    { RoutingRequest(ClientTenant, ClientFeature, caps, NilBool, NilInt, None, NilInt, uo) :
        caps \in {{}, {"chat"}}, uo \in {None, "gpt-4o"} }

\* IntelligentRouter.route_request, called directly
RouteAny(req) ==
    /\ Idle
    /\ hist.calls < MaxCalls
    /\ hist' = [hist EXCEPT !.calls = @ + 1]
    /\ request' = req
    /\ response' = route_request(req)
    /\ usage_tracker' = tracker_after(req)
    /\ UNCHANGED <<models, policies, budget_tracker, heap, current_month, raised,
                   pc, local>>

NextConc ==
    \/ \E t \in Threads :
          \/ Call(t)
          \/ \E usage \in TokenUsages : BackendOk(t, usage)
          \/ BackendFail(t)
          \/ RecTenant(t)
          \/ RecNew(t)
          \/ RecMonth(t)
          \/ RecZero(t)
          \/ RecLoad(t)
          \/ RecStore(t)
    \/ \E req \in ProbeRequests : RouteAny(req)
    \/ Return

SpecConc == InitConc /\ [][NextConc]_vars

-----------------------------------------------------------------------------
(* State machine: load_config and load_policies run statement by statement,  *)
(* each by its own loader, while a reader calls route_request. No lock       *)
(* guards models or policies, so the reader can run between any two          *)
(* statements of a load.                                                     *)

Loaders == {"registry", "policies"}

\* the $NAME indirection the catalog uses for an endpoint, and value[1:] of it
EndpointRef == "$AOAI_ENDPOINT"
EndpointVar == "AOAI_ENDPOINT"

\* os.environ, with and without the variable
Environs == {<<>>, (EndpointVar :> Endpoint)}

\* os.getenv(name), None when the variable is not set
getenv(environ, name) == IF name \in DOMAIN environ THEN environ[name] ELSE None

_resolve_environment_variables(value, environ) ==
    IF value = EndpointRef
    THEN IF TruthyStr(getenv(environ, EndpointVar))
         THEN getenv(environ, EndpointVar) ELSE value
    ELSE IF value \in DOMAIN environ
    THEN IF TruthyStr(getenv(environ, value)) THEN getenv(environ, value) ELSE value
    ELSE value

\* the keys _create_model_info reads from an entry of "models"
RequiredModelKeys ==
    {"deployment_name", "endpoint", "api_version", "capabilities",
     "performance_metrics", "tags", "health_status", "rate_limits", "cost_per_token"}

\* an entry of the "models" list: the values of its keys, and the keys it has
ModelData(name, endpoint, health, keys) ==
    [deployment_name |-> name, endpoint |-> endpoint, health_status |-> health,
     capabilities |-> RegistryConfig[name].capabilities,
     latency |-> RegistryConfig[name].latency,
     context_length |-> RegistryConfig[name].context_length,
     cost_input |-> RegistryConfig[name].cost_input,
     cost_output |-> RegistryConfig[name].cost_output,
     keys |-> keys]

\* the string values of an entry, resolved
_resolve_model_data(model_data, environ) ==
    [model_data EXCEPT
        !.deployment_name = _resolve_environment_variables(@, environ),
        !.endpoint = _resolve_environment_variables(@, environ),
        !.health_status = _resolve_environment_variables(@, environ),
        !.latency = _resolve_environment_variables(@, environ)]

\* model_data['...'] raises KeyError for a key the entry does not have
ModelKeyError(model_data) == ~(RequiredModelKeys \subseteq model_data.keys)

_create_model_info(model_data) ==
    [endpoint |-> model_data.endpoint,
     capabilities |-> model_data.capabilities,
     latency |-> model_data.latency,
     context_length |-> model_data.context_length,
     health_status |-> model_data.health_status,
     cost_input |-> model_data.cost_input,
     cost_output |-> model_data.cost_output,
     error_count |-> 0, total_requests |-> 0, total_tokens |-> 0]

\* a model_registry.json as load_config finds it, with the environment it is
\* resolved in
RegistrySource(exists, parseable, environ, entries) ==
    [exists |-> exists, parseable |-> parseable, environ |-> environ, models |-> entries]

\* the catalog of RegistryConfig, gpt-4o's endpoint through the indirection
FullModels ==
    << ModelData("gpt-4o", EndpointRef, "healthy", RequiredModelKeys),
       ModelData("gpt-4o-mini", Endpoint, "healthy", RequiredModelKeys),
       ModelData("gpt-35-turbo", Endpoint, "healthy", RequiredModelKeys) >>

\* a smaller catalog
SmallModels ==
    << ModelData("gpt-4o-mini", Endpoint, "degraded", RequiredModelKeys),
       ModelData("gpt-35-turbo", Endpoint, "healthy", RequiredModelKeys) >>

\* a catalog whose second entry has no endpoint
BrokenModels ==
    << ModelData("gpt-35-turbo", Endpoint, "healthy", RequiredModelKeys),
       ModelData("gpt-4o", Endpoint, "healthy", RequiredModelKeys \ {"endpoint"}),
       ModelData("gpt-4o-mini", Endpoint, "healthy", RequiredModelKeys) >>

RegistrySources ==
    { RegistrySource(FALSE, FALSE, <<>>, <<>>),
      RegistrySource(TRUE, FALSE, <<>>, <<>>),
      RegistrySource(TRUE, TRUE, <<>>, SmallModels),
      RegistrySource(TRUE, TRUE, <<>>, BrokenModels) }
    \cup { RegistrySource(TRUE, TRUE, e, FullModels) : e \in Environs }

\* the keys _create_routing_policy reads from an entry of "routing_policies"
RequiredPolicyKeys ==
    {"tenant_id", "feature", "model_selection_rules", "budget_constraints",
     "feature_flags"}

PolicyData(tenant_id, feature, policy, keys) ==
    [tenant_id |-> tenant_id, feature |-> feature, policy |-> policy, keys |-> keys]

PolicyKeyError(policy_data) == ~(RequiredPolicyKeys \subseteq policy_data.keys)

\* f"{policy.tenant_id}:{policy.feature}"
policy_key(policy_data) == <<policy_data.tenant_id, policy_data.feature>>

PolicySource(exists, parseable, entries) ==
    [exists |-> exists, parseable |-> parseable, routing_policies |-> entries]

\* the "routing_policies" lists PolicyConfigA and PolicyConfigB are loaded from
PoliciesA ==
    << PolicyData("acme", "qa", PolicyConfigA[<<"acme", "qa">>], RequiredPolicyKeys),
       PolicyData("default", "qa", PolicyConfigA[<<"default", "qa">>], RequiredPolicyKeys) >>

PoliciesB ==
    << PolicyData("acme", "qa", PolicyConfigB[<<"acme", "qa">>], RequiredPolicyKeys),
       PolicyData("default", "summarize", PolicyConfigB[<<"default", "summarize">>],
                  RequiredPolicyKeys) >>

\* list A with the budget_constraints of its second entry left out
BrokenPolicies ==
    << PoliciesA[1],
       PolicyData("default", "qa", PolicyConfigA[<<"default", "qa">>],
                  RequiredPolicyKeys \ {"budget_constraints"}) >>

PolicySources ==
    { PolicySource(FALSE, FALSE, <<>>),
      PolicySource(TRUE, FALSE, <<>>),
      PolicySource(TRUE, TRUE, PoliciesA),
      PolicySource(TRUE, TRUE, PoliciesB),
      PolicySource(TRUE, TRUE, BrokenPolicies) }

\* the requests the reader routes
ReaderRequests ==
    { RoutingRequest("acme", f, {"chat"}, NilBool, NilInt, None, NilInt, None) :
        f \in Features }

\* a loader is not inside a load
Finished == {"idle", "done", "failed", "skipped"}

\* no load has finished before the one in progress
NoPrev == [src |-> None]

InitLoad ==
    /\ models = RegistryConfig
    /\ policies = PolicyConfigA
    /\ budget_tracker = <<>>
    /\ heap = <<>>
    /\ current_month = 1
    /\ usage_tracker = <<>>
    /\ request = NoRequest
    /\ response = NoResponse
    /\ raised = FALSE
    /\ pc = [l \in Loaders |-> "idle"]
    /\ local = [l \in Loaders |-> <<>>]
    /\ hist = NoHistory

\* the load of the catalog that finished before the one that starts: its
\* source and the catalog it left
prev_load ==
    IF pc["registry"] = "idle" THEN NoPrev
    ELSE [src |-> local["registry"].src, result |-> models]

\* load_config: os.path.exists, open, json.load (lines 97-99)
load_config_open(src) ==
    /\ pc["registry"] \in Finished
    /\ local' = [local EXCEPT !["registry"] =
            [src |-> src, old |-> models, rest |-> src.models,
             prev |-> prev_load]]
    /\ pc' = [pc EXCEPT !["registry"] =
            IF ~src.exists THEN "skipped"
            ELSE IF ~src.parseable THEN "failed" ELSE "clear"]
    /\ UNCHANGED <<models, policies, budget_tracker, heap, current_month, usage_tracker,
                   request, response, raised, hist>>

\* load_config_clear keeping the entries and marking them stale instead
load_config_stale ==
    /\ pc["registry"] = "clear"
    /\ models' = [n \in DOMAIN models |-> [models[n] EXCEPT !.error_count = @ + 1]]
    /\ pc' = [pc EXCEPT !["registry"] = "fill"]
    /\ UNCHANGED <<policies, budget_tracker, heap, current_month, usage_tracker,
                   request, response, raised, local, hist>>

\* self.models.clear() (line 101)
load_config_clear ==
    /\ pc["registry"] = "clear"
    /\ models' = <<>>
    /\ pc' = [pc EXCEPT !["registry"] = "fill"]
    /\ UNCHANGED <<policies, budget_tracker, heap, current_month, usage_tracker,
                   request, response, raised, local, hist>>

\* one round of the loop over config.get('models', []) (lines 102-106); a
\* KeyError of _create_model_info leaves the loop for the except branch
load_config_entry ==
    /\ pc["registry"] = "fill"
    /\ local["registry"].rest # <<>>
    /\ LET resolved_model_data ==
               _resolve_model_data(Head(local["registry"].rest),
                                   local["registry"].src.environ)
       IN IF ModelKeyError(resolved_model_data)
          THEN /\ pc' = [pc EXCEPT !["registry"] = "failed"]
               /\ UNCHANGED <<models, local>>
          ELSE /\ models' = (resolved_model_data.deployment_name
                                :> _create_model_info(resolved_model_data)) @@ models
               /\ local' = [local EXCEPT !["registry"].rest = Tail(@)]
               /\ pc' = pc
    /\ UNCHANGED <<policies, budget_tracker, heap, current_month, usage_tracker,
                   request, response, raised, hist>>

\* the loop is over: last_config_load is set and the load returns (lines 108-109)
load_config_done ==
    /\ pc["registry"] = "fill"
    /\ local["registry"].rest = <<>>
    /\ pc' = [pc EXCEPT !["registry"] = "done"]
    /\ UNCHANGED <<models, policies, budget_tracker, heap, current_month, usage_tracker,
                   request, response, raised, local, hist>>

\* load_policies: os.path.exists, open, json.load (lines 82-84)
load_policies_open(src) ==
    /\ pc["policies"] \in Finished
    /\ local' = [local EXCEPT !["policies"] =
            [src |-> src, old |-> policies, rest |-> src.routing_policies]]
    /\ pc' = [pc EXCEPT !["policies"] =
            IF ~src.exists THEN "skipped"
            ELSE IF ~src.parseable THEN "failed" ELSE "clear"]
    /\ UNCHANGED <<models, policies, budget_tracker, heap, current_month, usage_tracker,
                   request, response, raised, hist>>

\* self.policies.clear() (line 86)
load_policies_clear ==
    /\ pc["policies"] = "clear"
    /\ policies' = <<>>
    /\ pc' = [pc EXCEPT !["policies"] = "fill"]
    /\ UNCHANGED <<models, budget_tracker, heap, current_month, usage_tracker,
                   request, response, raised, local, hist>>

\* one round of the loop over config.get('routing_policies', []) (lines 87-90)
load_policies_entry ==
    /\ pc["policies"] = "fill"
    /\ local["policies"].rest # <<>>
    /\ LET policy_data == Head(local["policies"].rest)
       IN IF PolicyKeyError(policy_data)
          THEN /\ pc' = [pc EXCEPT !["policies"] = "failed"]
               /\ UNCHANGED <<policies, local>>
          ELSE /\ policies' = (policy_key(policy_data) :> policy_data.policy) @@ policies
               /\ local' = [local EXCEPT !["policies"].rest = Tail(@)]
               /\ pc' = pc
    /\ UNCHANGED <<models, budget_tracker, heap, current_month, usage_tracker,
                   request, response, raised, hist>>

\* the loop is over and the load returns (line 92)
load_policies_done ==
    /\ pc["policies"] = "fill"
    /\ local["policies"].rest = <<>>
    /\ pc' = [pc EXCEPT !["policies"] = "done"]
    /\ UNCHANGED <<models, policies, budget_tracker, heap, current_month, usage_tracker,
                   request, response, raised, local, hist>>

NextLoad ==
    \/ \E src \in RegistrySources : load_config_open(src)
    \/ load_config_clear
    \/ load_config_entry
    \/ load_config_done
    \/ \E src \in PolicySources : load_policies_open(src)
    \/ load_policies_clear
    \/ load_policies_entry
    \/ load_policies_done
    \/ Idle /\ \E req \in ReaderRequests : Route(req)
    \/ Return

SpecLoad == InitLoad /\ [][NextLoad]_vars

-----------------------------------------------------------------------------
(* State machine: threads calling ModelRegistry.record_usage and             *)
(* ModelRegistry.update_model_health on the shared registry. No lock guards  *)
(* a ModelInfo, so a thread can be preempted between the load and the store  *)
(* of a += and between any two assignments.                                  *)

\* the deployment names the writers pass
UsageNames == {"gpt-4o", Dangling}
\* request_count and token_count of a record_usage call
RequestCounts == {1, 2}
TokenCounts == {0, 3}
\* error_count of an update_model_health call
ErrorCounts == {0, 1}

\* what the writers were called with: calls begun, the request and token counts
\* passed per deployment, the <<health_status, error_count, time>> of the
\* update_model_health calls per deployment
NoUsageHistory ==
    [calls |-> 0,
     requests |-> [n \in DOMAIN RegistryConfig |-> 0],
     tokens |-> [n \in DOMAIN RegistryConfig |-> 0],
     reports |-> [n \in DOMAIN RegistryConfig |-> {}]]

\* a ModelInfo with its last_health_check: the time of the last health update,
\* 0 (None) before the first one
WithHealthCheck(model) ==
    [f \in DOMAIN model \cup {"last_health_check"} |->
        IF f = "last_health_check" THEN 0 ELSE model[f]]

InitUsage ==
    /\ models = [n \in DOMAIN RegistryConfig |-> WithHealthCheck(RegistryConfig[n])]
    /\ policies = PolicyConfigA
    /\ budget_tracker = <<>>
    /\ heap = <<>>
    /\ current_month = 1
    /\ usage_tracker = <<>>
    /\ request = NoRequest
    /\ response = NoResponse
    /\ raised = FALSE
    /\ pc = [t \in Threads |-> "idle"]
    /\ local = [t \in Threads |-> <<>>]
    /\ hist = NoUsageHistory

\* record_usage is called: if deployment_name in self.models (line 170)
record_usage_call(t, deployment_name, request_count, token_count) ==
    /\ pc[t] = "idle"
    /\ hist.calls < MaxCalls
    /\ IF deployment_name \in DOMAIN models
       THEN /\ pc' = [pc EXCEPT ![t] = "load_requests"]
            /\ local' = [local EXCEPT ![t] =
                  [name |-> deployment_name, request_count |-> request_count,
                   token_count |-> token_count]]
            /\ hist' = [hist EXCEPT !.calls = @ + 1,
                                    !.requests[deployment_name] = @ + request_count,
                                    !.tokens[deployment_name] = @ + token_count]
       ELSE /\ hist' = [hist EXCEPT !.calls = @ + 1]
            /\ UNCHANGED <<pc, local>>
    /\ UNCHANGED <<models, policies, budget_tracker, heap, current_month,
                   usage_tracker, request, response, raised>>

\* the load of model.total_requests += request_count (line 172)
record_usage_load_requests(t) ==
    /\ pc[t] = "load_requests"
    /\ local' = [local EXCEPT ![t] =
          [name |-> local[t].name, request_count |-> local[t].request_count,
           token_count |-> local[t].token_count,
           v |-> models[local[t].name].total_requests]]
    /\ pc' = [pc EXCEPT ![t] = "store_requests"]
    /\ UNCHANGED <<models, policies, budget_tracker, heap, current_month,
                   usage_tracker, request, response, raised, hist>>

\* the store of model.total_requests += request_count (line 172)
record_usage_store_requests(t) ==
    /\ pc[t] = "store_requests"
    /\ models' = [models EXCEPT ![local[t].name].total_requests =
                      local[t].v + local[t].request_count]
    /\ local' = [local EXCEPT ![t] =
          [name |-> local[t].name, token_count |-> local[t].token_count]]
    /\ pc' = [pc EXCEPT ![t] = "load_tokens"]
    /\ UNCHANGED <<policies, budget_tracker, heap, current_month,
                   usage_tracker, request, response, raised, hist>>

\* the load of model.total_tokens += token_count (line 173)
record_usage_load_tokens(t) ==
    /\ pc[t] = "load_tokens"
    /\ local' = [local EXCEPT ![t] =
          [name |-> local[t].name, token_count |-> local[t].token_count,
           v |-> models[local[t].name].total_tokens]]
    /\ pc' = [pc EXCEPT ![t] = "store_tokens"]
    /\ UNCHANGED <<models, policies, budget_tracker, heap, current_month,
                   usage_tracker, request, response, raised, hist>>

\* the store of model.total_tokens += token_count (line 173); the call returns
record_usage_store_tokens(t) ==
    /\ pc[t] = "store_tokens"
    /\ models' = [models EXCEPT ![local[t].name].total_tokens =
                      local[t].v + local[t].token_count]
    /\ local' = [local EXCEPT ![t] = <<>>]
    /\ pc' = [pc EXCEPT ![t] = "idle"]
    /\ UNCHANGED <<policies, budget_tracker, heap, current_month,
                   usage_tracker, request, response, raised, hist>>

\* update_model_health is called: if deployment_name in self.models (line 161);
\* datetime.now() of the call is the number of the call
update_model_health_call(t, deployment_name, health_status, error_count) ==
    /\ pc[t] = "idle"
    /\ hist.calls < MaxCalls
    /\ IF deployment_name \in DOMAIN models
       THEN /\ pc' = [pc EXCEPT ![t] = "set_health_status"]
            /\ local' = [local EXCEPT ![t] =
                  [name |-> deployment_name, health_status |-> health_status,
                   error_count |-> error_count, now |-> hist.calls + 1]]
            /\ hist' = [hist EXCEPT !.calls = @ + 1,
                                    !.reports[deployment_name] =
                                        @ \cup {<<health_status, error_count,
                                                  hist.calls + 1>>}]
       ELSE /\ hist' = [hist EXCEPT !.calls = @ + 1]
            /\ UNCHANGED <<pc, local>>
    /\ UNCHANGED <<models, policies, budget_tracker, heap, current_month,
                   usage_tracker, request, response, raised>>

\* model.health_status = health_status (line 163)
update_model_health_status(t) ==
    /\ pc[t] = "set_health_status"
    /\ models' = [models EXCEPT ![local[t].name].health_status = local[t].health_status]
    /\ pc' = [pc EXCEPT ![t] = "set_last_health_check"]
    /\ UNCHANGED <<policies, budget_tracker, heap, current_month,
                   usage_tracker, request, response, raised, local, hist>>

\* model.last_health_check = datetime.now() (line 164)
update_model_health_checked(t) ==
    /\ pc[t] = "set_last_health_check"
    /\ models' = [models EXCEPT ![local[t].name].last_health_check = local[t].now]
    /\ pc' = [pc EXCEPT ![t] = "set_error_count"]
    /\ UNCHANGED <<policies, budget_tracker, heap, current_month,
                   usage_tracker, request, response, raised, local, hist>>

\* model.error_count = error_count (line 165); the call returns
update_model_health_errors(t) ==
    /\ pc[t] = "set_error_count"
    /\ models' = [models EXCEPT ![local[t].name].error_count = local[t].error_count]
    /\ local' = [local EXCEPT ![t] = <<>>]
    /\ pc' = [pc EXCEPT ![t] = "idle"]
    /\ UNCHANGED <<policies, budget_tracker, heap, current_month,
                   usage_tracker, request, response, raised, hist>>

NextUsage ==
    \E t \in Threads :
       \/ \E n \in UsageNames, rc \in RequestCounts, tc \in TokenCounts :
             record_usage_call(t, n, rc, tc)
       \/ record_usage_load_requests(t)
       \/ record_usage_store_requests(t)
       \/ record_usage_load_tokens(t)
       \/ record_usage_store_tokens(t)
       \/ \E n \in UsageNames, h \in HealthStatuses, ec \in ErrorCounts :
             update_model_health_call(t, n, h, ec)
       \/ update_model_health_status(t)
       \/ update_model_health_checked(t)
       \/ update_model_health_errors(t)

SpecUsage == InitUsage /\ [][NextUsage]_vars

-----------------------------------------------------------------------------
(* Vocabulary of the claims about route_request *)

\* a route_request call has returned and its decision is in response
Decided == ~Idle

\* a deployment is usable for a request: it is in the Directory, healthy, and
\* has every required capability
Usable(deployment_name, required_capabilities) ==
    /\ deployment_name \in DOMAIN models
    /\ models[deployment_name].health_status = "healthy"
    /\ required_capabilities \subseteq models[deployment_name].capabilities

\* performance fit of a deployment that is in the Directory
Fits(deployment_name, req) ==
    /\ deployment_name \in DOMAIN models
    /\ req.latency_requirement # None =>
          latency_hierarchy(models[deployment_name].latency)
             <= latency_hierarchy(req.latency_requirement)
    /\ req.context_length_estimate.some =>
          req.context_length_estimate.val <= models[deployment_name].context_length

HasOverride(req) == req.user_override # None
ValidOverride(req) ==
    HasOverride(req) /\ Usable(req.user_override, req.required_capabilities)

\* the ceiling the budget gate is to use: the override when supplied
Ceiling(policy, budget_override) ==
    IF budget_override.some THEN budget_override.val ELSE policy.monthly_budget

\* spend has reached ceiling * downshift_threshold
OverThreshold(tenant_id, policy, budget_override) ==
    current_budget(tenant_id) * 100
        >= Ceiling(policy, budget_override) * policy.cost_threshold

UnderBudget(tenant_id, policy, budget_override) ==
    ~policy.automatic_downshift \/ ~OverThreshold(tenant_id, policy, budget_override)

\* the selection of the preference ordering alone (step 4), "" when it finds none
PreferenceSelection(req, policy) ==
    LET m == IF effective_quality_priority(req, policy)
             THEN _select_quality_priority_model(req, policy)
             ELSE _select_cost_optimized_model(req, policy)
    IN IF m = None THEN "" ELSE m

\* the members of a policy's chain
Chain(policy) == {policy.primary, policy.fallback, policy.budget_fallback} \ {None}

FailureDecision(reason) ==
    [selected_model |-> "", routing_reason |-> reason, fallback_used |-> FALSE,
     budget_impact |-> 0, estimated_latency |-> "unknown", confidence_score |-> 0]

-----------------------------------------------------------------------------
(* Claims *)

\* C1: without a valid user_override, under a policy with automatic downshift
\* whose spend has reached ceiling * threshold, route_request selects
\* budget_fallback when it is set and usable, whatever the quality priority;
\* when budget_fallback is not usable the preference ordering decides.
C1_BudgetDownshiftPrecedence ==
    (Decided /\ ~ValidOverride(request) /\ resolve_policy(request) # NoPolicy) =>
        LET policy == resolve_policy(request)
        IN (/\ policy.automatic_downshift
            /\ OverThreshold(request.tenant_id, policy, request.budget_override)
            /\ policy.budget_fallback # None)
           => IF Usable(policy.budget_fallback, request.required_capabilities)
              THEN response.selected_model = policy.budget_fallback
              ELSE response.selected_model = PreferenceSelection(request, policy)

\* C2: a name that is not in the Directory is never the selected deployment.
C2_NoDanglingSelected ==
    Decided => response.selected_model \in DOMAIN models \cup {""}

\* C3: an override naming a deployment that is in the Directory, healthy and
\* has every required capability is the decision: reason user override, no
\* fallback, confidence 1.0, whatever the policies, the ledger and the
\* latency and context requirements are.
C3_ValidOverrideWins ==
    (Decided /\ ValidOverride(request)) =>
        /\ response.selected_model = request.user_override
        /\ response.routing_reason = ReasonOverride
        /\ response.fallback_used = FALSE
        /\ response.confidence_score = 10

\* C3 witness: a valid override decided for a request that has no policy and
\* whose latency and context requirements the deployment does not meet
C3_Witness ==
    /\ Decided /\ ValidOverride(request)
    /\ resolve_policy(request) = NoPolicy
    /\ ~Fits(request.user_override, request)
    /\ request.required_capabilities # {}
    /\ response.routing_reason = ReasonOverride

\* C4: an override naming a deployment that is not in the Directory is rejected:
\* the decision's reason is not the override reason.
C4_UnknownOverrideRejected ==
    (Decided /\ HasOverride(request) /\ request.user_override \notin DOMAIN models)
        => response.routing_reason # ReasonOverride

\* the decision route_request takes from a given policy
PolicyDecision(req, policy) ==
    LET selected_model == _select_optimal_model(req, policy)
    IN IF selected_model = None
       THEN _create_error_response(ReasonNoModel)
       ELSE _create_routing_response(req, selected_model, policy)

\* C5: without a valid user_override the tenant's policy is applied when it
\* exists, the default policy only when it does not, and with neither the
\* decision is the no-policy failure.
C5_PolicyResolution ==
    (Decided /\ ~ValidOverride(request)) =>
        LET own == <<request.tenant_id, request.feature>>
            dflt == <<"default", request.feature>>
        IN IF own \in DOMAIN policies
           THEN response = PolicyDecision(request, policies[own])
           ELSE IF dflt \in DOMAIN policies
           THEN response = PolicyDecision(request, policies[dflt])
           ELSE response = FailureDecision(ReasonNoPolicy)

\* C6: with a resolved policy and no valid override, the decision is the
\* no-suitable-model failure exactly when no member of the chain is both
\* usable and a performance fit.
C6_NoSuitableModel ==
    (Decided /\ ~ValidOverride(request) /\ resolve_policy(request) # NoPolicy) =>
        LET policy == resolve_policy(request)
            none == \A m \in Chain(policy) :
                        ~(Usable(m, request.required_capabilities) /\ Fits(m, request))
        IN /\ (response.routing_reason = ReasonNoModel) <=> none
           /\ none => response = FailureDecision(ReasonNoModel)

\* C7: the budget gate is true exactly when automatic downshift is off or the
\* spend is below (override ceiling if supplied, else the policy's) * threshold.
C7_BudgetGateDefinition ==
    (Decided /\ resolve_policy(request) # NoPolicy) =>
        LET policy == resolve_policy(request)
        IN _check_budget_constraints(request.tenant_id, policy, request.budget_override)
              <=> UnderBudget(request.tenant_id, policy, request.budget_override)

\* C9: a record_usage_cost call with a negative amount raises and leaves the
\* ledger as it was.
C9_NegativeSpendRejected ==
    [][\A t \in Tenants, a \in Amounts :
          (a < 0 /\ record_usage_cost(t, a))
             => (raised' /\ current_budget(t)' = current_budget(t))]_vars

-----------------------------------------------------------------------------
(* Claims about the ledger under concurrent client threads *)

\* no thread is inside record_usage_cost
NoRecordInProgress ==
    \A t \in Threads :
        pc[t] \notin {"rec_tenant", "rec_new", "rec_month", "rec_zero", "rec_load", "rec_store"}

\* C8: once the record_usage_cost calls of the concurrent threads have
\* returned, the tenant's current-month ledger entry is the sum of the amounts
\* they recorded.
C8_RaceFreeSpendAccounting ==
    NoRecordInProgress => current_budget(ClientTenant) = hist.recorded

\* the largest cost one request can have
MaxRequestCost ==
    LET costs == {u.prompt_tokens * RegistryConfig[m].cost_input
                  + u.completion_tokens * RegistryConfig[m].cost_output :
                      u \in TokenUsages, m \in DOMAIN RegistryConfig}
    IN CHOOSE c \in costs : \A c2 \in costs : c2 <= c

\* C10: the spend recorded by the requests that passed the budget gate never
\* exceeds ceiling * threshold by more than the cost of one request.
C10_BoundedOvershoot ==
    LET policy == get_policy(ClientTenant, ClientFeature)
    IN hist.passed * 100
          <= policy.monthly_budget * policy.cost_threshold + MaxRequestCost * 100

-----------------------------------------------------------------------------
(* Claims about the feedback of the client to the stores *)

\* C13: a failed backend call for the selected deployment sets its health to
\* unhealthy, its error_count to the previous value plus one, and the failure
\* reaches the caller.
C13_FailureFeedback ==
    [][\A t \in Threads :
          (BackendFail(t) /\ local[t].selected \in DOMAIN models) =>
              /\ models'[local[t].selected].health_status = "unhealthy"
              /\ models'[local[t].selected].error_count
                    = models[local[t].selected].error_count + 1
              /\ pc'[t] = "raised"
      ]_vars

\* the tokens measured for a backend call
total_tokens(usage) == usage.prompt_tokens + usage.completion_tokens

\* C14: a successful backend call adds 1 to the deployment's total_requests,
\* the measured tokens to its total_tokens, and the cost computed from the
\* measured tokens to the tenant's current-month ledger entry.
C14_SuccessFeedback ==
    [][\A t \in Threads :
          /\ \A usage \in TokenUsages :
                BackendOk(t, usage) =>
                    /\ models'[local[t].selected].total_requests
                          = models[local[t].selected].total_requests + 1
                    /\ models'[local[t].selected].total_tokens
                          = models[local[t].selected].total_tokens + total_tokens(usage)
                    /\ local'[t].cost = _calculate_chat_cost(local[t].selected, usage)
          /\ RecStore(t) =>
                current_budget(ClientTenant)' = current_budget(ClientTenant) + local[t].cost
      ]_vars

\* C15: a route_request call made after the client reported a deployment
\* unhealthy for a failed backend call does not select that deployment,
\* whatever the request is.
C15_ReroutingAvoidsFailed ==
    [][/\ \A req \in ProbeRequests :
             RouteAny(req) => response'.selected_model \notin hist.failed
       /\ \A t \in Threads :
             Call(t) => local'[t].selected \notin hist.failed
      ]_vars

-----------------------------------------------------------------------------
(* Claims about load_config and load_policies *)

\* the load of a store ended without replacing it: the source was missing,
\* not parseable, or an entry of it was malformed
LoadFailed(l) == pc[l] \in {"failed", "skipped"}

\* C11: a load that fails, whatever the reason, leaves the catalog / the
\* policy set exactly as it was before the call.
C11_FailSafeLoad ==
    /\ LoadFailed("registry") => models = local["registry"].old
    /\ LoadFailed("policies") => policies = local["policies"].old

\* every entry of the source has every required key
WellFormedModels(src) == \A i \in DOMAIN src.models : ~ModelKeyError(src.models[i])
WellFormedPolicies(src) ==
    \A i \in DOMAIN src.routing_policies : ~PolicyKeyError(src.routing_policies[i])

\* the complete catalog a well-formed source describes: for each name its
\* last entry
CatalogOf(src) ==
    LET data == [i \in DOMAIN src.models |->
                    _resolve_model_data(src.models[i], src.environ)]
        last(n) == CHOOSE i \in DOMAIN data :
                      /\ data[i].deployment_name = n
                      /\ \A j \in DOMAIN data : data[j].deployment_name = n => j <= i
    IN [n \in {data[i].deployment_name : i \in DOMAIN data} |->
            _create_model_info(data[last(n)])]

\* the complete policy set a well-formed source describes
PolicySetOf(src) ==
    LET data == src.routing_policies
        last(k) == CHOOSE i \in DOMAIN data :
                      /\ policy_key(data[i]) = k
                      /\ \A j \in DOMAIN data : policy_key(data[j]) = k => j <= i
    IN [k \in {policy_key(data[i]) : i \in DOMAIN data} |-> data[last(k)].policy]

\* C12: a route_request call that runs while a well-formed source is being
\* loaded reads either the complete old catalog / policy set or the complete
\* new one.
C12_AtomicReload ==
    [][(\E req \in ReaderRequests : Route(req)) =>
          /\ (pc["registry"] = "fill" /\ WellFormedModels(local["registry"].src))
                => models \in {local["registry"].old, CatalogOf(local["registry"].src)}
          /\ (pc["policies"] = "fill" /\ WellFormedPolicies(local["policies"].src))
                => policies \in {local["policies"].old, PolicySetOf(local["policies"].src)}
      ]_vars

\* a load of the catalog has ended right after another one of the same source
SecondLoadEnded ==
    /\ pc["registry"] \in {"done", "failed", "skipped"}
    /\ local["registry"].prev # NoPrev
    /\ local["registry"].prev.src = local["registry"].src

\* C16: a second load_config of the same source, nothing changed in between,
\* leaves the catalog the first one left: same names, same attribute values.
C16_LoadIdempotent ==
    SecondLoadEnded => models = local["registry"].prev.result

\* C16 witness: the second of two complete loads of one source has ended, and
\* the catalog it left is not the one the registry started with
C16_Witness ==
    /\ SecondLoadEnded
    /\ pc["registry"] = "done"
    /\ models # RegistryConfig
    /\ models # <<>>
    /\ models = CatalogOf(local["registry"].src)

\* an entry whose endpoint is not resolved: the key is missing, or its value
\* is a $NAME the environment has no value for
Unresolved(model_data, environ) ==
    \/ "endpoint" \notin model_data.keys
    \/ model_data.endpoint = EndpointRef /\ getenv(environ, EndpointVar) = None

\* C17: a load of a catalog with one unresolved entry completes, holds every
\* deployment of the source, and holds the unresolved one as unhealthy.
C17_UnresolvedDegradesOne ==
    pc["registry"] \in {"done", "failed"} =>
        LET src == local["registry"].src
            bad == {i \in DOMAIN src.models : Unresolved(src.models[i], src.environ)}
        IN Cardinality(bad) = 1 =>
              /\ pc["registry"] = "done"
              /\ \A i \in DOMAIN src.models :
                    src.models[i].deployment_name \in DOMAIN models
              /\ \A i \in bad :
                    models[src.models[i].deployment_name].health_status = "unhealthy"

-----------------------------------------------------------------------------
(* Claims about validation and the preference ordering *)

\* the names route_request validates for a request: its override and the
\* chain of its policy
Candidates(req) ==
    (IF HasOverride(req) THEN {req.user_override} ELSE {})
    \cup (IF resolve_policy(req) # NoPolicy THEN Chain(resolve_policy(req)) ELSE {})

\* C18: capability validation of a name passes exactly when the name is in the
\* Directory, its health is healthy, and it has every required capability;
\* with no required capability it still fails for a missing or not healthy one.
C18_CapabilityValidation ==
    Decided =>
        \A n \in Candidates(request) :
            _validate_model_capabilities(n, request.required_capabilities)
               <=> Usable(n, request.required_capabilities)

\* the budget gate of _select_optimal_model returns budget_fallback
GateDecides(req, policy) ==
    /\ ~_check_budget_constraints(req.tenant_id, policy, req.budget_override)
    /\ TruthyStr(policy.budget_fallback)
    /\ _validate_model_capabilities(policy.budget_fallback, req.required_capabilities)

\* the decision names a deployment the preference ordering chose
FromPreference ==
    /\ Decided
    /\ response.routing_reason \in {ReasonPrimary, ReasonFallback, ReasonBudget}
    /\ ~GateDecides(request, resolve_policy(request))

\* C19: a deployment chosen by the preference ordering, budget_fallback as the
\* last candidate included, is usable for the request and fits its latency and
\* context requirements.
C19_PreferenceSelectionValidated ==
    FromPreference =>
        /\ Usable(response.selected_model, request.required_capabilities)
        /\ Fits(response.selected_model, request)

\* the first of primary, fallback, budget_fallback that is usable and fits,
\* "" when there is none
FirstPassing(req, policy) ==
    LET passes(n) == n # None /\ Usable(n, req.required_capabilities) /\ Fits(n, req)
    IN IF passes(policy.primary) THEN policy.primary
       ELSE IF passes(policy.fallback) THEN policy.fallback
       ELSE IF passes(policy.budget_fallback) THEN policy.budget_fallback
       ELSE ""

\* C20: without override, when the budget gate does not decide and the
\* effective quality priority is true, the decision is the first of primary,
\* fallback, budget_fallback that passes validation, and fallback_used tells
\* whether it is another one than primary.
C20_QualityPriorityOrdering ==
    (/\ Decided /\ ~HasOverride(request)
     /\ resolve_policy(request) # NoPolicy
     /\ ~GateDecides(request, resolve_policy(request))
     /\ effective_quality_priority(request, resolve_policy(request)))
    => /\ response.selected_model = FirstPassing(request, resolve_policy(request))
       /\ response.selected_model # "" =>
             response.fallback_used
                = (response.selected_model # resolve_policy(request).primary)

\* the first of fallback, primary, budget_fallback that is usable and fits,
\* "" when there is none
FirstPassingCost(req, policy) ==
    LET passes(n) == n # None /\ Usable(n, req.required_capabilities) /\ Fits(n, req)
    IN IF passes(policy.fallback) THEN policy.fallback
       ELSE IF passes(policy.primary) THEN policy.primary
       ELSE IF passes(policy.budget_fallback) THEN policy.budget_fallback
       ELSE ""

\* C21: without override, when the budget gate does not decide and the
\* effective quality priority is false, the decision is the first of fallback,
\* primary, budget_fallback that passes validation.
C21_CostPriorityOrdering ==
    (/\ Decided /\ ~HasOverride(request)
     /\ resolve_policy(request) # NoPolicy
     /\ ~GateDecides(request, resolve_policy(request))
     /\ ~effective_quality_priority(request, resolve_policy(request)))
    => response.selected_model = FirstPassingCost(request, resolve_policy(request))

-----------------------------------------------------------------------------
(* Claims about the contents of a decision *)

\* the kinds of decision route_request returns
IsFailure == response.selected_model = ""
IsOverride == ~IsFailure /\ response.routing_reason = ReasonOverride
IsPolicySelection == ~IsFailure /\ ~IsOverride

\* the decision is a policy selection of another chain member than primary
OtherThanPrimary ==
    IsPolicySelection /\ response.selected_model # resolve_policy(request).primary

\* C22: fallback_used is true exactly for a policy selection that is not the
\* policy's primary; confidence is 1.0 exactly for an override decision, 0.9
\* exactly for the primary selected by policy, 0.7 exactly for another chain
\* member, 0.0 exactly for a failure.
C22_DecisionMetadata ==
    Decided =>
        /\ response.fallback_used <=> OtherThanPrimary
        /\ response.confidence_score = 10 <=> IsOverride
        /\ response.confidence_score = 9 <=> (IsPolicySelection /\ ~OtherThanPrimary)
        /\ response.confidence_score = 7 <=> OtherThanPrimary
        /\ response.confidence_score = 0 <=> IsFailure

\* C22 witness: a policy selection of another chain member than primary, with
\* fallback_used set and confidence 0.7
C22_Witness ==
    /\ Decided /\ OtherThanPrimary
    /\ response.fallback_used
    /\ response.confidence_score = 7

\* C23: a decision carries the budget reason exactly when the budget gate
\* produced it: the tenant was not under budget and budget_fallback validated.
C23_BudgetReasonReflectsGate ==
    (Decided /\ IsPolicySelection) =>
        (response.routing_reason = ReasonBudget
            <=> GateDecides(request, resolve_policy(request)))

\* C24: a deployment passes the performance check exactly when its latency
\* class is at least as fast as the latency requirement, if the request has
\* one, and the context estimate, if the request has one, is not above its
\* context_length.
C24_PerformanceFit ==
    Decided =>
        \A n \in DeploymentNames :
            _check_performance_requirements(n, request) <=> Fits(n, request)

\* C24 witness: a request with a latency requirement and a context estimate
\* that one deployment of the catalog meets and another one does not, by
\* latency as well as by context length
C24_Witness ==
    /\ Decided
    /\ request.latency_requirement # None
    /\ request.context_length_estimate.some /\ request.context_length_estimate.val > 0
    /\ \E n \in DOMAIN models : Fits(n, request)
    /\ \E n \in DOMAIN models :
          latency_hierarchy(models[n].latency)
             > latency_hierarchy(request.latency_requirement)
    /\ \E n \in DOMAIN models :
          /\ latency_hierarchy(models[n].latency)
                = latency_hierarchy(request.latency_requirement)
          /\ request.context_length_estimate.val <= models[n].context_length
    /\ \E n \in DOMAIN models :
          request.context_length_estimate.val > models[n].context_length

\* the input tokens the estimate is to use: the caller's when supplied
InputTokens(req) ==
    IF req.context_length_estimate.some
    THEN req.context_length_estimate.val ELSE DefaultInputTokens

\* C25: the estimated cost of a decision is input tokens * input cost + 500 *
\* output cost of the selected deployment, the input tokens being the caller's
\* estimate whenever supplied, 0 included; it is 0 for an unknown name and for
\* a failure.
C25_EstimatedCost ==
    Decided =>
        response.budget_impact =
            IF IsFailure \/ response.selected_model \notin DOMAIN models THEN 0
            ELSE InputTokens(request) * models[response.selected_model].cost_input
                 + DefaultOutputTokens * models[response.selected_model].cost_output

\* C28: a request whose override fails validation gets the decision the same
\* request without override gets.
C28_InvalidOverrideTransparent ==
    (Decided /\ HasOverride(request) /\ ~ValidOverride(request)) =>
        response = route_request([request EXCEPT !.user_override = None])

\* C29: a route_request call leaves the catalog, the policies and the ledger
\* as they were, and changes the router's own counters only for a policy
\* selection.
C29_RouteReadOnly ==
    [][(Idle /\ ~Idle') =>
          /\ UNCHANGED <<models, policies, budget_tracker, heap>>
          /\ \A t \in Tenants, n \in DeploymentNames :
                total_requests(usage_tracker', t, n)
                   = total_requests(usage_tracker, t, n)
                     + (IF /\ t = request'.tenant_id
                           /\ n = response'.selected_model
                           /\ response'.routing_reason # ReasonOverride
                        THEN 1 ELSE 0)
      ]_vars

\* C29 witness: an override decision returned while the ledger holds spend,
\* with a positive estimated cost, and no counter of the router moved
C29_Witness ==
    /\ Decided /\ IsOverride
    /\ current_budget(request.tenant_id) > 0
    /\ response.budget_impact > 0
    /\ Routed = 0

\* C30: select_model returns the deployment route_request selects for the
\* same request without override, latency requirement and context estimate.
C30_EntryPointsAgree ==
    (/\ Decided /\ ~HasOverride(request)
     /\ request.latency_requirement = None
     /\ ~request.context_length_estimate.some)
    => response.selected_model =
          (LET m == select_model(request.tenant_id, request.feature,
                                 request.required_capabilities,
                                 request.quality_priority, request.budget_override)
           IN IF m = None THEN "" ELSE m)

-----------------------------------------------------------------------------
(* Claims about concurrent writers of a ModelInfo *)

\* no record_usage or update_model_health call is in progress
Quiescent == \A t \in Threads : pc[t] = "idle"

\* C26: concurrent usage and health writers lose nothing. Once the calls have
\* returned, total_requests and total_tokens of every deployment are the sums
\* of the request and token counts passed to record_usage for it, and the
\* health_status, error_count and last_health_check of a deployment whose
\* health was reported are those of one single update_model_health call.
C26_WritersLoseNothing ==
    Quiescent =>
       \A n \in DOMAIN models :
          /\ models[n].total_requests = hist.requests[n]
          /\ models[n].total_tokens = hist.tokens[n]
          /\ hist.reports[n] # {} =>
                <<models[n].health_status, models[n].error_count,
                  models[n].last_health_check>> \in hist.reports[n]

-----------------------------------------------------------------------------
(* Claims about time *)

\* the ledger entry of a tenant for a month, 0 when nothing was recorded
SpendIn(tenant_id, month) ==
    IF tenant_id \in DOMAIN budget_tracker
       /\ month \in DOMAIN heap[budget_tracker[tenant_id]]
    THEN heap[budget_tracker[tenant_id]][month]
    ELSE 0

\* a step that records spend
Records == budget_tracker' # budget_tracker \/ heap' # heap

\* the spend recorded for a tenant in the current month
SpendThisMonth(tenant_id) == SpendIn(tenant_id, current_month)

\* the entry of a month that has not begun is 0, and the budget gate and
\* get_budget_status read the entry of the current month and nothing else
ReadsThisMonth ==
    \A t \in Tenants :
       /\ \A m \in Months : m > current_month => SpendIn(t, m) = 0
       /\ current_budget(t) = SpendThisMonth(t)
       /\ get_budget_status(t).current_spend = SpendThisMonth(t)
       /\ get_budget_status(t).remaining_budget
             = get_budget_status(t).total_monthly_budget - SpendThisMonth(t)
       /\ \A k \in DOMAIN policies, bo \in BudgetOverrides :
             _check_budget_constraints(t, policies[k], bo)
                = (\/ ~policies[k].automatic_downshift
                   \/ SpendThisMonth(t) * 100
                        < budget_limit(policies[k], bo) * policies[k].cost_threshold)

\* a decision taken from a policy while this month's spend of the tenant is
\* under the threshold is the selection of the preference ordering
NormalWhileUnder ==
    (Decided /\ IsPolicySelection) =>
       LET policy == resolve_policy(request)
       IN (\/ ~policy.automatic_downshift
           \/ SpendThisMonth(request.tenant_id) * 100
                < Ceiling(policy, request.budget_override) * policy.cost_threshold)
          => response.selected_model = PreferenceSelection(request, policy)

\* C27: calendar-month reset of the budget gate. Spend recorded in month M is
\* added to the entry (tenant, M) and to no other entry; the entry of a month
\* that has not begun is 0; the budget gate and get_budget_status read the entry
\* of the current month and nothing else, so that after the month has changed a
\* tenant with auto-downshift whose spend of the new month is under the
\* threshold is given the selection of the preference ordering, whatever it
\* spent in the months before.
C27_MonthlyReset ==
    [][ /\ \A t \in Tenants, m \in Months :
              m # current_month => SpendIn(t, m)' = SpendIn(t, m)
        /\ Records =>
              \E t \in Tenants, a \in Amounts :
                 SpendIn(t, current_month)' = SpendIn(t, current_month) + a
        /\ ReadsThisMonth'
        /\ NormalWhileUnder'
      ]_vars

\* a tenant over the threshold in month 1 gets its primary in month 2
C27_Witness ==
    /\ current_month = 2
    /\ Decided /\ IsPolicySelection
    /\ resolve_policy(request).automatic_downshift
    /\ ~request.budget_override.some
    /\ SpendIn(request.tenant_id, 1) > 0
    /\ SpendIn(request.tenant_id, 1) * 100
          >= Ceiling(resolve_policy(request), request.budget_override)
             * resolve_policy(request).cost_threshold
    /\ SpendIn(request.tenant_id, 2) = 0
    /\ response.selected_model = resolve_policy(request).primary
    /\ response.routing_reason = ReasonPrimary

====
